---- MODULE Spec2Model ----
(***************************************************************************)
(* yt-analysis (src/app.py): the YouTubeAnalytics fetcher, its feature     *)
(* derivation and the Streamlit script that drives them, as a sequential   *)
(* state machine.  The remote API is the environment: every response is    *)
(* drawn from a small set at the moment the request is executed.           *)
(***************************************************************************)
EXTENDS Integers, Sequences, FiniteSets, TLC

VARIABLES
    pc,               \* position of the running code
    caller,           \* who called the running method: the script or a direct call
    raised,           \* the exception that left the fetcher ("none" while there is none)
    stats_df,         \* script: rows of the channel table
    chan,             \* script: number of rows of stats_df already iterated (line 124)
    playlist,         \* the listing endpoint behind the playlist of the current call
    next_page_token,  \* get_video_ids: the cursor of the next request
    video_ids,        \* get_video_ids: identifiers collected so far
    listLog,          \* requests issued by the current get_video_ids call
    ids,              \* the argument of get_video_details
    i,                \* get_video_details: start index of the next batch
    all_video_info,   \* get_video_details: records collected so far
    detLog,           \* requests issued by the current get_video_details call
    all_videos,       \* script: the aggregated video table
    ui,               \* script: what has been shown, in order
    csv               \* script: content handed to the download button

vars == <<pc, caller, raised, stats_df, chan, playlist, next_page_token, video_ids,
          listLog, ids, i, all_video_info, detLog, all_videos, ui, csv>>

(***************************************************************************)
(* Bounds of the model.                                                    *)
(***************************************************************************)
MaxPages == 2        \* pages a listing endpoint holds
MaxRequests == 4     \* listing requests followed on an endless cursor chain
PartialSize == 20    \* items of a partial page
MaxIds == 120        \* identifiers handed to a direct get_video_details call

(***************************************************************************)
(* Program constants.                                                      *)
(***************************************************************************)
maxResults == 50     \* page size asked of playlistItems().list
BatchLimit == 50     \* step and width of the slices of get_video_details
NoToken == 0         \* Python None as a page token; tokens are 1, 2, ...

\* channel_input's default value, split and stripped (lines 107, 112)
channel_ids == <<"UCttspZesZIDEwwpVIgoZtWQ", "UCRWFSbif-RFENbBrSiez1DA">>

\* What request.execute() can do: answer, raise HttpError, or raise an exception
\* that is no HttpError (a transport failure such as a timeout or a DNS error).
Outcomes == {"ok", "HttpError", "TransportError"}

RECURSIVE Flatten(_)
Flatten(ss) == IF ss = <<>> THEN <<>> ELSE Head(ss) \o Flatten(Tail(ss))

Range(s) == {s[k] : k \in 1..Len(s)}

Min(a, b) == IF a < b THEN a ELSE b

(***************************************************************************)
(* The listing endpoint (playlistItems().list) of one playlist: page p     *)
(* holds size[p] items and answers with cursor nxt[p] (NoToken: none).     *)
(* A request without a cursor reads page 1, a request with token t page t. *)
(***************************************************************************)
PageSizes == {0, PartialSize, maxResults}

Listings(base) ==
    UNION { { [nxt |-> f, size |-> s, base |-> base] :
                f \in [1..P -> 0..P], s \in [1..P -> PageSizes] } : P \in 1..MaxPages }

NumPages(l) == Len(l.size)

PageOf(token) == IF token = NoToken THEN 1 ELSE token

PageItems(l, p) == [j \in 1..l.size[p] |-> l.base + maxResults * (p - 1) + j]

\* N full pages, then one partial page whose response carries no cursor.
FullThenPartial(l) ==
    /\ \A p \in 1..NumPages(l) :
          /\ l.nxt[p] = (IF p < NumPages(l) THEN p + 1 ELSE NoToken)
          /\ p < NumPages(l) => l.size[p] = maxResults
    /\ l.size[NumPages(l)] < maxResults

\* The cursors lead page by page to a page without a cursor.
ChainOnly(l) ==
    \A p \in 1..NumPages(l) : l.nxt[p] = (IF p < NumPages(l) THEN p + 1 ELSE NoToken)

(***************************************************************************)
(* get_video_ids, lines 48-67.                                             *)
(***************************************************************************)
LoopsOn_always(token) == TRUE

\* line 62-63: the loop goes on iff the response's nextPageToken is truthy
LoopsOn(token) == token # NoToken

ExceptVideoIds_none(out) == FALSE

\* line 65: the failures the except clause of the loop catches
ExceptVideoIds(out) == out = "HttpError"

Appended_front(collected, items) == items \o collected

\* lines 60-61: the items of the response are appended in their order
Appended(collected, items) == collected \o items

\* One turn of the while loop (lines 51-66): one request, its response or its failure.
get_video_ids_request ==
    /\ pc = "get_video_ids"
    /\ Len(listLog) < MaxRequests
    /\ \E out \in Outcomes :
         LET p == PageOf(next_page_token)
             items == PageItems(playlist, p)
             token == playlist.nxt[p]
         IN  /\ listLog' = Append(listLog,
                    [pageToken |-> next_page_token, outcome |-> out,
                     items |-> IF out = "ok" THEN items ELSE <<>>,
                     nextPageToken |-> IF out = "ok" THEN token ELSE NoToken])
             /\ CASE out = "ok" ->
                       /\ video_ids' = Appended(video_ids, items)
                       /\ next_page_token' = token
                       /\ pc' = IF LoopsOn(token) THEN "get_video_ids" ELSE "get_video_ids_return"
                       /\ UNCHANGED raised
                  [] out # "ok" /\ ExceptVideoIds(out) ->
                       /\ pc' = "get_video_ids_return"
                       /\ UNCHANGED <<video_ids, next_page_token, raised>>
                  [] out # "ok" /\ ~ExceptVideoIds(out) ->
                       /\ pc' = "raised"
                       /\ raised' = out
                       /\ UNCHANGED <<video_ids, next_page_token>>
    /\ UNCHANGED <<caller, stats_df, chan, playlist, ids, i, all_video_info, detLog,
                   all_videos, ui, csv>>

\* line 67, and in the script lines 126-127: the result becomes the argument of
\* get_video_details, whose locals are set up (line 70).
get_video_ids_return ==
    /\ pc = "get_video_ids_return"
    /\ IF caller = "script"
       THEN /\ ids' = video_ids
            /\ i' = 0
            /\ all_video_info' = <<>>
            /\ detLog' = <<>>
            /\ pc' = "get_video_details"
       ELSE /\ pc' = "returned"
            /\ UNCHANGED <<ids, i, all_video_info, detLog>>
    /\ UNCHANGED <<caller, raised, stats_df, chan, playlist, next_page_token, video_ids,
                   listLog, all_videos, ui, csv>>

(***************************************************************************)
(* The video endpoint (videos().list).  A video resource carries its       *)
(* statistics as decimal strings, each of which may be absent; here a      *)
(* string is the sequence of its digits.  Title, tags, duration and        *)
(* publishedAt are carried by name only (see VideoColumns): no operation   *)
(* below branches on them.                                                 *)
(***************************************************************************)
ViewStrings == << <<0>>, <<4>>, <<1, 0>> >>
LikeStrings == << <<0>>, <<3>> >>
CommentStrings == << <<0>>, <<1>> >>

Statistics(id) ==
    LET v == id % 4
        l == (id \div 4) % 3
        c == (id \div 12) % 2
    IN  [k \in ({"commentCount"} \cup (IF v = 0 THEN {} ELSE {"viewCount"})
                                 \cup (IF l = 0 THEN {} ELSE {"likeCount"})) |->
            CASE k = "viewCount" -> ViewStrings[v]
              [] k = "likeCount" -> LikeStrings[l]
              [] k = "commentCount" -> CommentStrings[c + 1]]

VideoResource(id) == [id |-> id, statistics |-> Statistics(id)]

\* int() of a decimal string
RECURSIVE int(_)
int(digits) ==
    IF digits = <<>> THEN 0
    ELSE 10 * int(SubSeq(digits, 1, Len(digits) - 1)) + digits[Len(digits)]

\* int(video['statistics'].get(key, 0)), lines 84-86
StatOf(video, key) ==
    IF key \in DOMAIN video.statistics THEN int(video.statistics[key]) ELSE 0

\* lines 79-88
video_info(video) ==
    [video_id |-> video.id,
     viewCount |-> StatOf(video, "viewCount"),
     likeCount |-> StatOf(video, "likeCount"),
     commentCount |-> StatOf(video, "commentCount")]

VideoColumns ==
    <<"video_id", "title", "publishedAt", "tags", "viewCount", "likeCount",
      "commentCount", "duration">>

\* lines 78-89: one record per video of the response, in its order
Records(items) == [k \in 1..Len(items) |-> video_info(items[k])]

Resources(batch) == [k \in 1..Len(batch) |-> VideoResource(batch[k])]

(***************************************************************************)
(* get_video_details, lines 69-92.                                         *)
(***************************************************************************)
BatchSlice_short(v, start) == SubSeq(v, start + 1, Min(start + BatchLimit - 1, Len(v)))

\* line 75: video_ids[i:i+50]
BatchSlice(v, start) == SubSeq(v, start + 1, Min(start + BatchLimit, Len(v)))

\* line 71: range(0, len(video_ids), 50)
NextStart(start) == start + BatchLimit

ExceptVideoDetails_none(out) == FALSE

\* line 90: the failures the except clause of the loop catches
ExceptVideoDetails(out) == out = "HttpError"

\* The answer of the endpoint to a batch: the resources of the requested videos
\* it knows, in request order; it may not know the first one (a deleted video).
Answers(batch) ==
    {Resources(batch)} \cup
    (IF batch = <<>> THEN {} ELSE {Resources(Tail(batch))})

\* One turn of the for loop (lines 71-91): one request, its response or its failure.
get_video_details_batch ==
    /\ pc = "get_video_details"
    /\ i < Len(ids)
    /\ \E out \in Outcomes :
         \E answer \in (IF out = "ok" THEN Answers(BatchSlice(ids, i)) ELSE {<<>>}) :
             /\ detLog' = Append(detLog,
                    [ids |-> BatchSlice(ids, i), outcome |-> out, items |-> answer])
             /\ CASE out = "ok" ->
                       /\ all_video_info' = all_video_info \o Records(answer)
                       /\ i' = NextStart(i)
                       /\ UNCHANGED <<pc, raised>>
                  [] out # "ok" /\ ExceptVideoDetails(out) ->
                       /\ i' = NextStart(i)
                       /\ UNCHANGED <<pc, raised, all_video_info>>
                  [] out # "ok" /\ ~ExceptVideoDetails(out) ->
                       /\ pc' = "raised"
                       /\ raised' = out
                       /\ UNCHANGED <<i, all_video_info>>
    /\ UNCHANGED <<caller, stats_df, chan, playlist, next_page_token, video_ids, listLog,
                   ids, all_videos, ui, csv>>

\* pd.DataFrame(records), lines 46 and 92: no records, no columns
DataFrame(records, columns) ==
    IF records = <<>> THEN [columns |-> <<>>, rows |-> <<>>]
    ELSE [columns |-> columns, rows |-> records]

\* pd.concat([a, b], ignore_index=True), line 128, of frames that have the same
\* columns or none
concat(a, b) ==
    [columns |-> IF a.columns = <<>> THEN b.columns ELSE a.columns,
     rows |-> a.rows \o b.rows]

\* line 92, and in the script line 128 and the next turn of the loop of line 124
get_video_details_return ==
    /\ pc = "get_video_details"
    /\ i >= Len(ids)
    /\ IF caller = "script"
       THEN /\ all_videos' = concat(all_videos, DataFrame(all_video_info, VideoColumns))
            /\ chan' = chan + 1
            /\ pc' = "for_channels"
       ELSE /\ pc' = "returned"
            /\ UNCHANGED <<all_videos, chan>>
    /\ UNCHANGED <<caller, raised, stats_df, playlist, next_page_token, video_ids, listLog,
                   ids, i, all_video_info, detLog, ui, csv>>

EmptyTable == [columns |-> <<>>, rows |-> <<>>]

NoCsv == [made |-> FALSE, header |-> <<>>, records |-> <<>>]

(***************************************************************************)
(* Numbers.  A float is the fraction num/den it stands for, or one of the  *)
(* IEEE values a division by zero leaves behind.                           *)
(***************************************************************************)
Number(n, d) == [kind |-> "finite", num |-> n, den |-> d]
Infinity == [kind |-> "inf", num |-> 1, den |-> 0]
NegInfinity == [kind |-> "-inf", num |-> -1, den |-> 0]
NotANumber == [kind |-> "nan", num |-> 0, den |-> 0]
ZeroDivisionError == [kind |-> "ZeroDivisionError", num |-> 0, den |-> 0]

\* Python's a / b on ints: raises on b = 0
PyDiv(a, b) == IF b = 0 THEN ZeroDivisionError ELSE Number(a, b)

\* x * k for a float x and an int k
PyMul(x, k) == IF x.kind = "finite" THEN Number(x.num * k, x.den) ELSE x

\* a / b of two integer columns (numpy true division): no error, inf or nan on b = 0
NpDiv(a, b) ==
    IF b # 0 THEN Number(a, b)
    ELSE IF a > 0 THEN Infinity
    ELSE IF a < 0 THEN NegInfinity
    ELSE NotANumber

(***************************************************************************)
(* preprocess, lines 94-102.  The columns derived from title, tags and     *)
(* duration are carried by name.                                           *)
(***************************************************************************)
ratio_unguarded(count, viewCount) == PyMul(PyDiv(count, viewCount), 1000)

\* lines 99-100: (count / viewCount * 1000) if viewCount else 0
ratio(count, viewCount) ==
    IF viewCount # 0 THEN PyMul(PyDiv(count, viewCount), 1000) ELSE Number(0, 1)

DerivedColumns ==
    <<"durationSecs", "tagsCount", "titleLength", "likeRatio", "commentRatio",
      "titleSentiment">>

preprocess_row(row) ==
    row @@ [likeRatio |-> ratio(row.likeCount, row.viewCount),
            commentRatio |-> ratio(row.commentCount, row.viewCount)]

\* rows whose lambda raises
Raising(rows) ==
    {k \in 1..Len(rows) :
        "ZeroDivisionError" \in {preprocess_row(rows[k]).likeRatio.kind,
                                 preprocess_row(rows[k]).commentRatio.kind}}

\* st.<kind>(text): one thing shown on the page
st(kind, text) == [kind |-> kind, text |-> text]

(***************************************************************************)
(* get_channel_stats, lines 26-46.                                         *)
(***************************************************************************)
ChannelColumns ==
    <<"channelId", "channelName", "subscriberCount", "viewCount", "videoCount",
      "uploadsPlaylistId">>

\* lines 35-42: the row of a channel; its uploads playlist is named by the
\* position of the channel in channel_ids
channel_row(c) == [channelId |-> channel_ids[c], uploadsPlaylistId |-> c]

InOrder(S) ==
    [k \in 1..Cardinality(S) |-> CHOOSE x \in S : Cardinality({y \in S : y < x}) = k - 1]

\* The channels endpoint answers with the channels it knows among those asked for.
ChannelAnswers ==
    {[k \in 1..Cardinality(S) |-> channel_row(InOrder(S)[k])] :
        S \in SUBSET (1..Len(channel_ids))}

ExceptChannelStats_none(out) == FALSE

\* line 44: the failures the except clause catches
ExceptChannelStats(out) == out = "HttpError"

\* line 114: the call, lines 28-46: the one request, its response or its failure
get_channel_stats ==
    /\ pc = "start"
    /\ \E out \in Outcomes :
         \E answer \in (IF out = "ok" THEN ChannelAnswers ELSE {<<>>}) :
             CASE out = "ok" ->
                    /\ stats_df' = DataFrame(answer, ChannelColumns)
                    /\ pc' = "check_stats"
                    /\ UNCHANGED <<ui, raised>>
               [] out # "ok" /\ ExceptChannelStats(out) ->
                    /\ stats_df' = DataFrame(<<>>, ChannelColumns)
                    /\ ui' = Append(ui, st("error", "YouTube API error"))
                    /\ pc' = "check_stats"
                    /\ UNCHANGED raised
               [] out # "ok" /\ ~ExceptChannelStats(out) ->
                    /\ pc' = "raised"
                    /\ raised' = out
                    /\ UNCHANGED <<stats_df, ui>>
    /\ UNCHANGED <<caller, chan, playlist, next_page_token, video_ids, listLog, ids, i,
                   all_video_info, detLog, all_videos, csv>>

(***************************************************************************)
(* The script, lines 110-186, after "Start Analysis" is pressed.           *)
(***************************************************************************)
empty_never(df) == FALSE

\* df.empty
empty(df) == df.rows = <<>> \/ df.columns = <<>>

\* lines 116-123
check_stats ==
    /\ pc = "check_stats"
    /\ IF empty(stats_df)
       THEN /\ ui' = Append(ui, st("warning", "No data fetched. Please check channel IDs."))
            /\ pc' = "stopped"
            /\ UNCHANGED <<all_videos, chan>>
       ELSE /\ ui' = ui \o <<st("subheader", "Channel Statistics"), st("dataframe", "stats_df")>>
            /\ all_videos' = EmptyTable
            /\ chan' = 0
            /\ pc' = "for_channels"
    /\ UNCHANGED <<caller, raised, stats_df, playlist, next_page_token, video_ids, listLog,
                   ids, i, all_video_info, detLog, csv>>

\* The listing endpoints behind an uploads playlist: full pages, then a last page.
Uploads(k) ==
    {l \in Listings(1000 * k) :
        ChainOnly(l) /\ \A p \in 1..(NumPages(l) - 1) : l.size[p] = maxResults}

\* lines 124-126: the next row of stats_df, up to the call of get_video_ids
\* and its first two lines (49-50)
fetch_videos ==
    /\ pc = "for_channels"
    /\ chan < Len(stats_df.rows)
    /\ ui' = Append(ui, st("info", "Fetching videos"))
    /\ playlist' \in Uploads(stats_df.rows[chan + 1].uploadsPlaylistId)
    /\ video_ids' = <<>>
    /\ next_page_token' = NoToken
    /\ listLog' = <<>>
    /\ pc' = "get_video_ids"
    /\ UNCHANGED <<caller, raised, stats_df, chan, ids, i, all_video_info, detLog,
                   all_videos, csv>>

\* line 130, after the last row, and its else branch (lines 185-186)
check_videos ==
    /\ pc = "for_channels"
    /\ chan >= Len(stats_df.rows)
    /\ IF ~empty(all_videos)
       THEN /\ pc' = "preprocess"
            /\ UNCHANGED ui
       ELSE /\ ui' = Append(ui, st("warning", "No video data found."))
            /\ pc' = "done"
    /\ UNCHANGED <<caller, raised, stats_df, chan, playlist, next_page_token, video_ids,
                   listLog, ids, i, all_video_info, detLog, all_videos, csv>>

\* line 131: all_videos = yt.preprocess(all_videos)
preprocess ==
    /\ pc = "preprocess"
    /\ IF Raising(all_videos.rows) = {}
       THEN /\ all_videos' = [columns |-> all_videos.columns \o DerivedColumns,
                              rows |-> [k \in 1..Len(all_videos.rows) |->
                                         preprocess_row(all_videos.rows[k])]]
            /\ pc' = "video_analytics"
            /\ UNCHANGED raised
       ELSE /\ raised' = "ZeroDivisionError"
            /\ pc' = "raised"
            /\ UNCHANGED all_videos
    /\ UNCHANGED <<caller, stats_df, chan, playlist, next_page_token, video_ids, listLog,
                   ids, i, all_video_info, detLog, ui, csv>>

\* lines 132-148
video_analytics ==
    /\ pc = "video_analytics"
    /\ ui' = ui \o <<st("success", "Fetched videos"), st("subheader", "Video Analytics"),
                     st("chart", "Top Videos by Views"), st("chart", "Sentiment vs View Count"),
                     st("chart", "Like & Comment Ratio Distribution")>>
    /\ pc' = "download_button"
    /\ UNCHANGED <<caller, raised, stats_df, chan, playlist, next_page_token, video_ids,
                   listLog, ids, i, all_video_info, detLog, all_videos, csv>>

\* all_videos.to_csv(index=False): the header names the columns the frame has
\* now, one record per row follows
to_csv(df) == [made |-> TRUE, header |-> df.columns, records |-> df.rows]

\* line 150
download_button ==
    /\ pc = "download_button"
    /\ csv' = to_csv(all_videos)
    /\ ui' = Append(ui, st("download_button", "video_data.csv"))
    /\ pc' = "additional_insights"
    /\ UNCHANGED <<caller, raised, stats_df, chan, playlist, next_page_token, video_ids,
                   listLog, ids, i, all_video_info, detLog, all_videos>>

\* lines 153-169
additional_insights ==
    /\ pc = "additional_insights"
    /\ ui' = ui \o <<st("subheader", "Additional Visual Insights"),
                     st("chart", "Distribution of Video Durations"), st("chart", "Views vs Likes"),
                     st("chart", "Top 10 Most Viewed Videos")>>
    /\ pc' = "engagement"
    /\ UNCHANGED <<caller, raised, stats_df, chan, playlist, next_page_token, video_ids,
                   listLog, ids, i, all_video_info, detLog, all_videos, csv>>

\* line 174: (likeCount + commentCount) / viewCount, column by column
engagement(row) == NpDiv(row.likeCount + row.commentCount, row.viewCount)

with_engagement(row) == row @@ [engagement |-> engagement(row)]

\* lines 172-176
engagement_over_time ==
    /\ pc = "engagement"
    /\ all_videos' = [columns |-> Append(all_videos.columns, "engagement"),
                      rows |-> [k \in 1..Len(all_videos.rows) |->
                                 with_engagement(all_videos.rows[k])]]
    /\ ui' = Append(ui, st("chart", "Engagement Rate Over Time"))
    /\ pc' = "heatmap"
    /\ UNCHANGED <<caller, raised, stats_df, chan, playlist, next_page_token, video_ids,
                   listLog, ids, i, all_video_info, detLog, csv>>

\* lines 179-184
engagement_heatmap ==
    /\ pc = "heatmap"
    /\ all_videos' = [all_videos EXCEPT !.columns = @ \o <<"hour", "day">>]
    /\ ui' = Append(ui, st("chart", "Engagement by Day and Hour"))
    /\ pc' = "done"
    /\ UNCHANGED <<caller, raised, stats_df, chan, playlist, next_page_token, video_ids,
                   listLog, ids, i, all_video_info, detLog, csv>>

\* Line 110 with start_analysis true.
Init ==
    /\ pc = "start"
    /\ caller = "script"
    /\ raised = "none"
    /\ stats_df = EmptyTable
    /\ chan = 0
    /\ playlist = [nxt |-> <<NoToken>>, size |-> <<0>>, base |-> 0]
    /\ next_page_token = NoToken
    /\ video_ids = <<>>
    /\ listLog = <<>>
    /\ ids = <<>>
    /\ i = 0
    /\ all_video_info = <<>>
    /\ detLog = <<>>
    /\ all_videos = EmptyTable
    /\ ui = <<>>
    /\ csv = NoCsv

Next ==
    \/ get_channel_stats
    \/ check_stats
    \/ fetch_videos
    \/ get_video_ids_request
    \/ get_video_ids_return
    \/ get_video_details_batch
    \/ get_video_details_return
    \/ check_videos
    \/ preprocess
    \/ video_analytics
    \/ download_button
    \/ additional_insights
    \/ engagement_over_time
    \/ engagement_heatmap

Spec == Init /\ [][Next]_vars /\ WF_vars(Next)


\* A direct call get_video_ids(playlist_id) on any listing endpoint.
InitIds ==
    /\ pc = "get_video_ids"
    /\ caller = "direct"
    /\ raised = "none"
    /\ stats_df = EmptyTable
    /\ chan = 0
    /\ playlist \in Listings(0)
    /\ next_page_token = NoToken
    /\ video_ids = <<>>
    /\ listLog = <<>>
    /\ ids = <<>>
    /\ i = 0
    /\ all_video_info = <<>>
    /\ detLog = <<>>
    /\ all_videos = EmptyTable
    /\ ui = <<>>
    /\ csv = NoCsv

NextIds == get_video_ids_request \/ get_video_ids_return

SpecIds == InitIds /\ [][NextIds]_vars /\ WF_vars(NextIds)

\* A direct call get_video_details(video_ids) on n identifiers.
InitDetails ==
    /\ pc = "get_video_details"
    /\ caller = "direct"
    /\ raised = "none"
    /\ stats_df = EmptyTable
    /\ chan = 0
    /\ playlist = [nxt |-> <<NoToken>>, size |-> <<0>>, base |-> 0]
    /\ next_page_token = NoToken
    /\ video_ids = <<>>
    /\ listLog = <<>>
    /\ \E n \in 0..MaxIds : ids = [k \in 1..n |-> k]
    /\ i = 0
    /\ all_video_info = <<>>
    /\ detLog = <<>>
    /\ all_videos = EmptyTable
    /\ ui = <<>>
    /\ csv = NoCsv

NextDetails == get_video_details_batch \/ get_video_details_return

SpecDetails == InitDetails /\ [][NextDetails]_vars /\ WF_vars(NextDetails)

(***************************************************************************)
(* Claims about get_video_ids, checked under SpecIds.                      *)
(***************************************************************************)
ListingReturned == pc \in {"get_video_ids_return", "returned"}

NeverFailed == \A k \in 1..Len(listLog) : listLog[k].outcome = "ok"

NoDuplicates(s) == \A a, b \in 1..Len(s) : s[a] = s[b] => a = b

AllPages(l) == Flatten([p \in 1..NumPages(l) |-> PageItems(l, p)])

\* C1: on a listing of N full pages followed by one partial page without a
\* cursor, with no failing request, get_video_ids returns the concatenation of
\* all N+1 pages in page order and within-page order, nothing twice, nothing
\* missing.
C1_Pagination ==
    (ListingReturned /\ FullThenPartial(playlist) /\ NeverFailed) =>
        /\ video_ids = AllPages(playlist)
        /\ NoDuplicates(video_ids)
        /\ Len(video_ids) = maxResults * (NumPages(playlist) - 1)
                              + playlist.size[NumPages(playlist)]

C1_Witness ==
    /\ pc = "returned"
    /\ FullThenPartial(playlist)
    /\ NeverFailed
    /\ NumPages(playlist) >= 2
    /\ playlist.size[NumPages(playlist)] = PartialSize
    /\ Len(video_ids) = maxResults * (NumPages(playlist) - 1) + PartialSize

\* The request that failed with HttpError, when the call ended on one.
FailedAt == Len(listLog)

FailedWithHttpError ==
    /\ listLog # <<>>
    /\ listLog[FailedAt].outcome = "HttpError"

\* C2: when the listing request for page k fails with the API's remote error
\* (HttpError) after pages 1..k-1 succeeded, get_video_ids returns exactly the
\* items of pages 1..k-1 in order (nothing when k = 1), nothing of page k or
\* later, and raises nothing.
C2_PartialOnFailure ==
    FailedWithHttpError =>
        /\ ListingReturned
        /\ raised = "none"
        /\ video_ids = Flatten([k \in 1..(FailedAt - 1) |->
                                  PageItems(playlist, PageOf(listLog[k].pageToken))])
        /\ ChainOnly(playlist) =>
              /\ video_ids = Flatten([k \in 1..(FailedAt - 1) |-> PageItems(playlist, k)])
              /\ \A p \in FailedAt..NumPages(playlist) :
                    Range(video_ids) \cap Range(PageItems(playlist, p)) = {}

C2_Witness ==
    /\ pc = "returned"
    /\ FailedWithHttpError
    /\ FailedAt = 2
    /\ ChainOnly(playlist)
    /\ Len(video_ids) = maxResults
    /\ playlist.size[2] > 0

\* The walk every get_video_ids call performs: the first request carries no
\* cursor, each later one the cursor of the response just before it, and nothing
\* is requested after a response without a cursor or after a failure.
CursorWalk ==
    /\ listLog # <<>> => listLog[1].pageToken = NoToken
    /\ \A k \in 2..Len(listLog) :
          /\ listLog[k - 1].outcome = "ok"
          /\ listLog[k - 1].nextPageToken # NoToken
          /\ listLog[k].pageToken = listLog[k - 1].nextPageToken
    /\ (pc \in {"get_video_ids_return", "returned", "raised"}) =>
          /\ listLog # <<>>
          /\ \/ listLog[Len(listLog)].outcome # "ok"
             \/ listLog[Len(listLog)].nextPageToken = NoToken

NoCursorTwice ==
    \A a, b \in 1..Len(listLog) : listLog[a].pageToken = listLog[b].pageToken => a = b

\* The pages the cursors lead through from page 1, when they end on a page
\* without a cursor; <<>> when they come back to a page already read.
RECURSIVE ChainFrom(_, _, _)
ChainFrom(l, p, seen) ==
    IF p \in Range(seen) THEN <<>>
    ELSE IF l.nxt[p] = NoToken THEN Append(seen, p)
    ELSE ChainFrom(l, l.nxt[p], Append(seen, p))

Chain(l) == ChainFrom(l, 1, <<>>)

ChainFinite(l) == Chain(l) # <<>>

\* C10 as stated: besides the walk, no cursor is ever requested twice.
C10_Original == CursorWalk /\ NoCursorTwice

OnePerPage ==
    ChainFinite(playlist) =>
        /\ NoCursorTwice
        /\ Len(listLog) <= Len(Chain(playlist))
        /\ \A k \in 1..Len(listLog) : PageOf(listLog[k].pageToken) = Chain(playlist)[k]
        /\ (ListingReturned /\ NeverFailed) => Len(listLog) = Len(Chain(playlist))

ListingEnded == pc \in {"returned", "raised"}

\* C10 (amended): get_video_ids is a retry-free cursor walk; on a listing whose
\* cursor chain is finite no cursor is requested twice, each page reached is
\* requested exactly once, and the call ends.
C10_CursorWalk ==
    /\ [](CursorWalk /\ OnePerPage)
    /\ (ChainFinite(playlist) ~> ListingEnded)

C10_Witness ==
    /\ pc = "returned"
    /\ ChainFinite(playlist)
    /\ NeverFailed
    /\ Len(listLog) = 2
    /\ listLog[2].pageToken = 2

(***************************************************************************)
(* Claims about get_video_details, checked under SpecDetails.              *)
(***************************************************************************)
DetailsReturned == pc = "returned"

Ceil(n, d) == (n + d - 1) \div d

\* C3: for n identifiers get_video_details issues ceil(n/50) requests; request j
\* carries identifiers 50(j-1)+1 .. min(50j, n) in input order, so each
\* identifier is sent exactly once, and the records returned are the batches'
\* results concatenated in batch order.
C3_Batches ==
    /\ \A j \in 1..Len(detLog) :
          detLog[j].ids = [k \in 1..(Min(BatchLimit * j, Len(ids)) - BatchLimit * (j - 1)) |->
                              ids[BatchLimit * (j - 1) + k]]
    /\ DetailsReturned =>
          /\ Len(detLog) = Ceil(Len(ids), BatchLimit)
          /\ Flatten([j \in 1..Len(detLog) |-> detLog[j].ids]) = ids
          /\ all_video_info =
                Flatten([j \in 1..Len(detLog) |-> Records(detLog[j].items)])

C3_Witness ==
    /\ DetailsReturned
    /\ Len(ids) = 120
    /\ Len(detLog) = 3
    /\ Len(detLog[1].ids) = 50 /\ Len(detLog[2].ids) = 50 /\ Len(detLog[3].ids) = 20
    /\ \A j \in 1..3 : detLog[j].outcome = "ok"
    /\ Len(all_video_info) >= 117

IsPrefix(s, t) == Len(s) <= Len(t) /\ SubSeq(t, 1, Len(s)) = s

BatchFailed(j) == detLog[j].outcome = "HttpError"

\* What holds of every batch whose request failed with HttpError.
C4_Skipped ==
    \A j \in 1..Len(detLog) : BatchFailed(j) =>
        /\ raised = "none" \/ detLog[Len(detLog)].outcome = "TransportError"
        /\ pc \in {"get_video_details", "returned", "raised"}
        /\ \A r \in Range(all_video_info) : r.video_id \notin Range(detLog[j].ids)
        /\ DetailsReturned =>
              /\ Len(detLog) = Ceil(Len(ids), BatchLimit)
              /\ all_video_info =
                    Flatten([k \in 1..Len(detLog) |->
                               IF detLog[k].outcome = "ok"
                               THEN Records(detLog[k].items) ELSE <<>>])

\* Records already collected stay where they are.
C4_Kept == [][IsPrefix(all_video_info, all_video_info')]_vars

\* C4: a batch whose request fails with the API's remote error (HttpError)
\* contributes no record, every later batch is still requested, the result is
\* the concatenation in batch order of the records of the batches that
\* succeeded, and records collected earlier are kept.
C4_SkipAndContinue == []C4_Skipped /\ C4_Kept

C4_Witness ==
    /\ DetailsReturned
    /\ Len(detLog) = 3
    /\ detLog[1].outcome = "ok" /\ BatchFailed(2) /\ detLog[3].outcome = "ok"
    /\ Len(all_video_info) = 70

(***************************************************************************)
(* Claims about the whole run, checked under Spec.                         *)
(***************************************************************************)
\* C5: no failure of a remote call, of whatever kind, leaves the fetcher as an
\* exception: get_channel_stats, get_video_ids and get_video_details return
\* normally and the run is not aborted.
C5_NothingPropagates == raised \notin Outcomes /\ pc # "raised"

Rows == Range(all_videos.rows)

HasColumn(row, c) == c \in DOMAIN row

\* C6: after the run every video with viewCount = 0 has a defined engagement,
\* never the inf or nan of a division by zero.
C6_EngagementDefined ==
    pc = "done" =>
        \A row \in Rows :
            (HasColumn(row, "engagement") /\ row.viewCount = 0) =>
                row.engagement.kind = "finite"

\* C7: the content handed to the download button has every field of the
\* enriched table in its header, engagement, hour and day included, and one
\* record per video.
C7_FullCsv ==
    csv.made =>
        /\ Range(DerivedColumns) \cup {"engagement", "hour", "day"} \subseteq Range(csv.header)
        /\ Len(csv.records) = Len(all_videos.rows)

Preprocessed ==
    pc \in {"video_analytics", "download_button", "additional_insights", "engagement",
            "heatmap", "done"} /\ all_videos.rows # <<>>

IsRatio(x, count, viewCount) ==
    /\ x.kind = "finite"
    /\ x.den # 0
    /\ x.num * viewCount = count * 1000 * x.den

\* C8: preprocess gives every video with viewCount = 0 likeRatio 0 and
\* commentRatio 0 and raises no division error; for viewCount > 0 the ratios are
\* likeCount / viewCount * 1000 and commentCount / viewCount * 1000.
C8_Ratios ==
    /\ raised # "ZeroDivisionError"
    /\ Preprocessed =>
          \A row \in Rows :
              /\ HasColumn(row, "likeRatio") /\ HasColumn(row, "commentRatio")
              /\ row.viewCount = 0 =>
                    /\ row.likeRatio = Number(0, 1)
                    /\ row.commentRatio = Number(0, 1)
              /\ row.viewCount > 0 =>
                    /\ IsRatio(row.likeRatio, row.likeCount, row.viewCount)
                    /\ IsRatio(row.commentRatio, row.commentCount, row.viewCount)

C8_Witness ==
    /\ pc = "video_analytics"
    /\ \E row \in Rows : row.viewCount = 0 /\ row.likeCount > 0 /\ row.commentCount > 0
    /\ \E row \in Rows : row.viewCount > 0 /\ row.likeCount > 0 /\ row.likeRatio.num > 0

Shown(kind) == {k \in 1..Len(ui) : ui[k].kind = kind}

NothingFetched == listLog = <<>> /\ detLog = <<>> /\ Shown("info") = {}

NothingDerived ==
    /\ Range(all_videos.columns) \cap
          (Range(DerivedColumns) \cup {"engagement", "hour", "day"}) = {}
    /\ Shown("chart") = {} /\ Shown("success") = {} /\ Shown("download_button") = {}
    /\ ~csv.made

ChannelsFetched == pc \notin {"start", "check_stats", "raised"}

VideosFetched ==
    pc \in {"preprocess", "video_analytics", "download_button", "additional_insights",
            "engagement", "heatmap", "done"}

LastShown(kind, text) == ui # <<>> /\ ui[Len(ui)] = st(kind, text)

\* C9: when the channel fetch yields no records (none resolved, or the request
\* failed with HttpError) a warning is shown and nothing is listed, fetched,
\* derived, charted or exported afterwards; when channels are resolved but the
\* aggregated video table is empty, a warning is shown and neither preprocess
\* nor a chart nor the export happens.
C9_EmptyStops ==
    /\ (ChannelsFetched /\ stats_df.rows = <<>>) =>
          /\ pc = "stopped"
          /\ LastShown("warning", "No data fetched. Please check channel IDs.")
          /\ NothingFetched
          /\ NothingDerived
    /\ (VideosFetched /\ all_videos.rows = <<>>) =>
          /\ pc = "done"
          /\ LastShown("warning", "No video data found.")
          /\ NothingDerived
    /\ pc = "stopped" => stats_df.rows = <<>>

C9_Witness ==
    /\ pc = "done"
    /\ Len(stats_df.rows) = 2
    /\ all_videos.rows = <<>>
    /\ detLog # <<>>
    /\ Cardinality(Shown("warning")) = 1

C9_WitnessFailed ==
    /\ pc = "stopped"
    /\ Cardinality(Shown("error")) = 1
    /\ Cardinality(Shown("warning")) = 1

C9_WitnessUnresolved ==
    /\ pc = "stopped"
    /\ ui = <<st("warning", "No data fetched. Please check channel IDs.")>>

====
